---- MODULE Spec2Model ----
(***************************************************************************)
(* Model of the AgmMarkerCluster directive                                 *)
(* (packages/js-marker-clusterer/directives/marker-cluster.ts).            *)
(*                                                                         *)
(* The directive is an adapter between the host framework's lifecycle      *)
(* callbacks (ngOnChanges, ngOnInit, ngOnDestroy, content-list changes)    *)
(* and a ClusterManager.  The state is the directive's fields, the         *)
(* manager's call counters, and a record of what the last operation did    *)
(* (the manager calls it made, the info windows it opened, the events it   *)
(* emitted, the error it raised).                                          *)
(***************************************************************************)
EXTENDS Integers, Sequences, FiniteSets, TLC

\* ---------------------------------------------------------------- bounds

\* ngOnChanges is called at most this many times in one lifetime.
MaxChangeCalls == 2

\* Number of AgmInfoWindow children that can be projected into the directive.
NumInfoWindows == 2

\* ---------------------------------------------------------------- values

\* The eight cluster options of the directive (its @Input fields but
\* openInfoWindow).
ClusterOptionNames ==
  {"gridSize", "maxZoom", "zoomOnClick", "averageCenter",
   "minimumClusterSize", "styles", "imagePath", "imageExtension"}

\* Every @Input of the directive.
InputNames == ClusterOptionNames \cup {"openInfoWindow"}

\* The value of an @Input that was never bound.
Undefined == 0

\* The change sets the host hands to ngOnChanges: nothing, one input, the
\* styles together with another input, or every input at once (the first
\* call of a directive whose inputs are all bound).
ChangeSets ==
  {c \in SUBSET InputNames :
     \/ Cardinality(c) <= 1
     \/ c = {"styles", "gridSize"}
     \/ c = {"styles", "openInfoWindow"}
     \/ c = InputNames}

\* The names of the manager's event streams the directive listens to.
Streams == {"clusterclick", "dblclick"}

\* The projected AgmInfoWindow children, in document order.
InfoWindows == 1..NumInfoWindows

\* Markers of the wrapped map library: a title and more fields.
MarkerA == [title |-> "a", label |-> "x"]
MarkerB == [title |-> "b", label |-> "y"]
MarkerC == [title |-> "a", label |-> "z"]

\* The clusters the manager reports: a centre, a bounding box given by its
\* north-east and south-west corners, and the markers of the cluster.
Clusters ==
  { [center |-> [lat |-> 1, lng |-> 2],
     ne |-> [lat |-> 3, lng |-> 4],
     sw |-> [lat |-> 5, lng |-> 6],
     markers |-> <<MarkerB, MarkerC, MarkerA>>],
    [center |-> [lat |-> 6, lng |-> 5],
     ne |-> [lat |-> 4, lng |-> 3],
     sw |-> [lat |-> 2, lng |-> 1],
     markers |-> <<>>] }

\* The value of lastCluster when the last operation was no cluster event.
NoCluster == [center |-> [lat |-> 0, lng |-> 0],
              ne |-> [lat |-> 0, lng |-> 0],
              sw |-> [lat |-> 0, lng |-> 0],
              markers |-> <<>>]

\* ---------------------------------------------------------------- state

VARIABLES
  inputs,                    \* the eight option fields, Undefined or a value
  openInfoWindow,            \* the openInfoWindow field
  infoWindow,                \* the QueryList of projected info windows
  hostMarker,                \* per info window: is its hostMarker this directive
  _observableSubscriptions,  \* the stream of each subscription, in push order
  lifecycle,                 \* where the host is in the directive's lifecycle
  nChanges,                  \* number of ngOnChanges calls so far
  mgrInitCalls,              \* number of init calls the manager has received
  mgrClearCalls,             \* number of clearMarkers calls the manager received
  lastOp,                    \* the last operation that ran
  lastChanges,               \* its change set, for ngOnChanges
  lastCluster,               \* its cluster, for a cluster event
  trace                      \* what the last operation did, in order

vars == <<inputs, openInfoWindow, infoWindow, hostMarker,
          _observableSubscriptions, lifecycle, nChanges, mgrInitCalls,
          mgrClearCalls, lastOp, lastChanges, lastCluster, trace>>

\* One step of an operation: a manager call, an info window's open(), an
\* emission of clusterClick, a console.log or a raised error.  sub is the
\* index of the subscription whose handler made it (0: no handler).
Entry(kind, sub, arg) == [kind |-> kind, sub |-> sub, arg |-> arg]

\* The entries of t of one kind.
OfKind(t, kind) == SelectSeq(t, LAMBDA e : e.kind = kind)

\* How many entries of t are of one kind.
Count(t, kind) == Len(OfKind(t, kind))

\* ---------------------------------------------------------------- helpers

\* The ascending sequence of the elements of a set of info windows.
RECURSIVE InDocumentOrder(_)
InDocumentOrder(S) ==
  IF S = {} THEN <<>>
  ELSE LET m == CHOOSE x \in S : \A y \in S : x <= y
       IN <<m>> \o InDocumentOrder(S \ {m})

\* The concatenation of f[1], ..., f[n].
RECURSIVE Concat(_, _)
Concat(f, n) == IF n = 0 THEN <<>> ELSE Concat(f, n - 1) \o f[n]

\* ---------------------------------------------------------------- the code

\* handleInfoWindowUpdate assigning the hostMarkers before it checks the
\* length.
handleInfoWindowUpdate_AssignFirst(list, hm) ==
  [trace |-> IF Len(list) > 1
               THEN <<Entry("raise", 0, "Expected no more than one info window.")>>
               ELSE <<>>,
   hostMarker |-> [w \in InfoWindows |->
                     hm[w] \/ (\E i \in 1..Len(list) : list[i] = w)]]

\* handleInfoWindowUpdate with the guard off by one (length > 2).
handleInfoWindowUpdate_OffByOne(list, hm) ==
  IF Len(list) > 2
  THEN [trace |-> <<Entry("raise", 0, "Expected no more than one info window.")>>,
        hostMarker |-> hm]
  ELSE [trace |-> <<>>,
        hostMarker |-> [w \in InfoWindows |->
                          hm[w] \/ (\E i \in 1..Len(list) : list[i] = w)]]

\* handleInfoWindowUpdate: raise when more than one info window is projected,
\* otherwise make the directive the hostMarker of every projected one.
\* list is the QueryList, hm the hostMarker flags before the call.
handleInfoWindowUpdate(list, hm) ==
  IF Len(list) > 1
  THEN [trace |-> <<Entry("raise", 0, "Expected no more than one info window.")>>,
        hostMarker |-> hm]
  ELSE [trace |-> <<>>,
        hostMarker |-> [w \in InfoWindows |->
                          hm[w] \/ (\E i \in 1..Len(list) : list[i] = w)]]

\* The setter calls with the gridSize block run whatever the change set.
SetterCalls_GridSizeAlways(changes) ==
     <<Entry("setGridSize", 0, "this")>>
  \o (IF "maxZoom" \in changes
        THEN <<Entry("setMaxZoom", 0, "this")>> ELSE <<>>)
  \o (IF "styles" \in changes
        THEN <<Entry("setStyles", 0, "this")>> ELSE <<>>)
  \o (IF "zoomOnClick" \in changes
        THEN <<Entry("setZoomOnClick", 0, "this")>> ELSE <<>>)
  \o (IF "averageCenter" \in changes
        THEN <<Entry("setAverageCenter", 0, "this")>> ELSE <<>>)
  \o (IF "minimumClusterSize" \in changes
        THEN <<Entry("setMinimumClusterSize", 0, "this")>> ELSE <<>>)
  \o (IF "styles" \in changes
        THEN <<Entry("setStyles", 0, "this")>> ELSE <<>>)
  \o (IF "imagePath" \in changes
        THEN <<Entry("setImagePath", 0, "this")>> ELSE <<>>)
  \o (IF "imageExtension" \in changes
        THEN <<Entry("setImageExtension", 0, "this")>> ELSE <<>>)

\* The manager calls of ngOnChanges before it adds the listeners: one block
\* per option, in the order of the code (the styles block is there twice).
SetterCalls(changes) ==
     (IF "gridSize" \in changes
        THEN <<Entry("setGridSize", 0, "this")>> ELSE <<>>)
  \o (IF "maxZoom" \in changes
        THEN <<Entry("setMaxZoom", 0, "this")>> ELSE <<>>)
  \o (IF "styles" \in changes
        THEN <<Entry("setStyles", 0, "this")>> ELSE <<>>)
  \o (IF "zoomOnClick" \in changes
        THEN <<Entry("setZoomOnClick", 0, "this")>> ELSE <<>>)
  \o (IF "averageCenter" \in changes
        THEN <<Entry("setAverageCenter", 0, "this")>> ELSE <<>>)
  \o (IF "minimumClusterSize" \in changes
        THEN <<Entry("setMinimumClusterSize", 0, "this")>> ELSE <<>>)
  \o (IF "styles" \in changes
        THEN <<Entry("setStyles", 0, "this")>> ELSE <<>>)
  \o (IF "imagePath" \in changes
        THEN <<Entry("setImagePath", 0, "this")>> ELSE <<>>)
  \o (IF "imageExtension" \in changes
        THEN <<Entry("setImageExtension", 0, "this")>> ELSE <<>>)

\* _addEventListeners: ask the manager for the two event streams, subscribe
\* a handler to each and push both subscriptions.
AddEventListenersCalls ==
  << Entry("createClusterEventObservable", 0, "clusterclick"),
     Entry("createClusterEventObservable", 0, "dblclick") >>

AddEventListenersSubscriptions(subs) ==
  Append(Append(subs, "clusterclick"), "dblclick")

\* The options object with gridSize and maxZoom taken from each other's field.
InitOptions_Swapped(inp) ==
  [gridSize           |-> inp["maxZoom"],
   maxZoom            |-> inp["gridSize"],
   zoomOnClick        |-> inp["zoomOnClick"],
   averageCenter      |-> inp["averageCenter"],
   minimumClusterSize |-> inp["minimumClusterSize"],
   styles             |-> inp["styles"],
   imagePath          |-> inp["imagePath"],
   imageExtension     |-> inp["imageExtension"]]

\* The options object ngOnInit hands to the manager's init.
InitOptions(inp) ==
  [gridSize           |-> inp["gridSize"],
   maxZoom            |-> inp["maxZoom"],
   zoomOnClick        |-> inp["zoomOnClick"],
   averageCenter      |-> inp["averageCenter"],
   minimumClusterSize |-> inp["minimumClusterSize"],
   styles             |-> inp["styles"],
   imagePath          |-> inp["imagePath"],
   imageExtension     |-> inp["imageExtension"]]

\* The manager calls of ngOnInit: init with the options object.
InitCalls(inp) == <<Entry("init", 0, InitOptions(inp))>>

\* ngOnDestroy clearing the markers twice.
DestroyCalls_Twice ==
  <<Entry("clearMarkers", 0, "this"), Entry("clearMarkers", 0, "this")>>

\* The manager calls of ngOnDestroy.
DestroyCalls == <<Entry("clearMarkers", 0, "this")>>

\* The number of subscriptions to a stream the directive holds: it pushes
\* every subscription and unsubscribes none.
LiveSubscriptions(stream) ==
  Cardinality({i \in 1..Len(_observableSubscriptions) :
                 _observableSubscriptions[i] = stream})

\* The event with east and west taken from the wrong corner and the whole
\* marker copied instead of its title.
ClickEvent_Swapped(cluster) ==
  [bounds  |-> [north |-> cluster.ne.lat,
                east  |-> cluster.sw.lng,
                south |-> cluster.sw.lat,
                west  |-> cluster.ne.lng],
   center  |-> [lat |-> cluster.center.lat,
                lng |-> cluster.center.lng],
   markers |-> cluster.markers]

\* The event the cluster click handler builds from the cluster.
ClickEvent(cluster) ==
  [bounds  |-> [north |-> cluster.ne.lat,
                east  |-> cluster.ne.lng,
                south |-> cluster.sw.lat,
                west  |-> cluster.sw.lng],
   center  |-> [lat |-> cluster.center.lat,
                lng |-> cluster.center.lng],
   markers |-> [i \in 1..Len(cluster.markers) |->
                  [title |-> cluster.markers[i].title]]]

\* The cluster click handler emitting before it opens the info windows.
ClusterClickHandler_EmitFirst(cluster, sub, oiw, list) ==
     <<Entry("emit", sub, ClickEvent(cluster))>>
  \o (IF oiw
        THEN [i \in 1..Len(list) |-> Entry("open", sub, list[i])]
        ELSE <<>>)

\* The cluster click handler deciding on the value openInfoWindow had when
\* the directive was constructed (TRUE) instead of its value at the click.
ClusterClickHandler_OpenAtDefault(cluster, sub, oiw, list) ==
     [i \in 1..Len(list) |-> Entry("open", sub, list[i])]
  \o <<Entry("emit", sub, ClickEvent(cluster))>>

\* The cluster click handler opening the first info window without looking
\* whether there is one: with none projected it raises and emits nothing.
ClusterClickHandler_OpenFirst(cluster, sub, oiw, list) ==
  IF oiw /\ Len(list) = 0
  THEN <<Entry("raise", sub, "Cannot read property 'open' of undefined")>>
  ELSE (IF oiw THEN <<Entry("open", sub, list[1])>> ELSE <<>>)
       \o <<Entry("emit", sub, ClickEvent(cluster))>>

\* One run of the cluster click handler, for subscription number sub: open
\* every projected info window when openInfoWindow is set, then emit.
ClusterClickHandler(cluster, sub, oiw, list) ==
     (IF oiw
        THEN [i \in 1..Len(list) |-> Entry("open", sub, list[i])]
        ELSE <<>>)
  \o <<Entry("emit", sub, ClickEvent(cluster))>>

\* The double click handler emitting the cluster to the host as well.
DoubleClickHandler_Emits(cluster, sub) ==
  <<Entry("log", sub, cluster), Entry("emit", sub, ClickEvent(cluster))>>

\* One run of the double click handler: console.log(cluster).
DoubleClickHandler(cluster, sub) ==
  <<Entry("log", sub, cluster)>>

\* The manager's stream delivers a cluster to every subscription of the
\* stream, in subscription order.
Deliver(stream, cluster, subs, oiw, list) ==
  Concat([i \in 1..Len(subs) |->
            IF subs[i] # stream THEN <<>>
            ELSE IF stream = "clusterclick"
                   THEN ClusterClickHandler(cluster, i, oiw, list)
                   ELSE DoubleClickHandler(cluster, i)],
         Len(subs))

\* ---------------------------------------------------------------- actions

\* The state after the constructor: no input is bound, openInfoWindow has its
\* default, the QueryList is empty and handleInfoWindowUpdate has run on it.
Init ==
  LET r == handleInfoWindowUpdate(<<>>, [w \in InfoWindows |-> FALSE]) IN
  /\ inputs = [o \in ClusterOptionNames |-> Undefined]
  /\ openInfoWindow = TRUE
  /\ infoWindow = <<>>
  /\ hostMarker = r.hostMarker
  /\ _observableSubscriptions = <<>>
  /\ lifecycle = "uninitialized"
  /\ nChanges = 0
  /\ mgrInitCalls = 0
  /\ mgrClearCalls = 0
  /\ lastOp = "constructor"
  /\ lastChanges = {}
  /\ lastCluster = NoCluster
  /\ trace = r.trace

\* The host assigns new values to the changed inputs (a value no input had
\* before; openInfoWindow is a boolean and flips) and calls ngOnChanges.
ngOnChanges(changes) ==
  /\ lifecycle # "destroyed"
  /\ nChanges < MaxChangeCalls
  /\ nChanges' = nChanges + 1
  /\ inputs' = [o \in ClusterOptionNames |->
                  IF o \in changes THEN nChanges + 1 ELSE inputs[o]]
  /\ openInfoWindow' =
       IF "openInfoWindow" \in changes THEN ~openInfoWindow ELSE openInfoWindow
  /\ _observableSubscriptions' =
       AddEventListenersSubscriptions(_observableSubscriptions)
  /\ trace' = SetterCalls(changes) \o AddEventListenersCalls
  /\ mgrInitCalls' = mgrInitCalls + Count(trace', "init")
  /\ mgrClearCalls' = mgrClearCalls + Count(trace', "clearMarkers")
  /\ lastOp' = "ngOnChanges"
  /\ lastChanges' = changes
  /\ lastCluster' = NoCluster
  /\ UNCHANGED <<infoWindow, hostMarker, lifecycle>>

\* The host calls ngOnInit once, on first activation.
ngOnInit ==
  /\ lifecycle = "uninitialized"
  /\ lifecycle' = "initialized"
  /\ trace' = InitCalls(inputs)
  /\ mgrInitCalls' = mgrInitCalls + Count(trace', "init")
  /\ mgrClearCalls' = mgrClearCalls + Count(trace', "clearMarkers")
  /\ lastOp' = "ngOnInit"
  /\ lastChanges' = {}
  /\ lastCluster' = NoCluster
  /\ UNCHANGED <<inputs, openInfoWindow, infoWindow, hostMarker,
                 _observableSubscriptions, nChanges>>

\* The host destroys an initialized directive.
ngOnDestroy ==
  /\ lifecycle = "initialized"
  /\ lifecycle' = "destroyed"
  /\ trace' = DestroyCalls
  /\ mgrInitCalls' = mgrInitCalls + Count(trace', "init")
  /\ mgrClearCalls' = mgrClearCalls + Count(trace', "clearMarkers")
  /\ lastOp' = "ngOnDestroy"
  /\ lastChanges' = {}
  /\ lastCluster' = NoCluster
  /\ UNCHANGED <<inputs, openInfoWindow, infoWindow, hostMarker,
                 _observableSubscriptions, nChanges>>

\* The projected content changes to the info windows of S: the QueryList is
\* updated and its changes stream runs handleInfoWindowUpdate.  The host
\* resolves content queries after ngOnInit and until the destruction.
InfoWindowChanges(S) ==
  LET list == InDocumentOrder(S)
      r == handleInfoWindowUpdate(list, hostMarker) IN
  /\ lifecycle = "initialized"
  /\ list # infoWindow
  /\ infoWindow' = list
  /\ hostMarker' = r.hostMarker
  /\ trace' = r.trace
  /\ lastOp' = "infoWindowChanges"
  /\ lastChanges' = {}
  /\ lastCluster' = NoCluster
  /\ UNCHANGED <<inputs, openInfoWindow, _observableSubscriptions, lifecycle,
                 nChanges, mgrInitCalls, mgrClearCalls>>

\* The manager delivers a cluster on one of its event streams.
ClusterEvent(stream, cluster) ==
  /\ trace' = Deliver(stream, cluster, _observableSubscriptions,
                      openInfoWindow, infoWindow)
  /\ lastOp' = stream
  /\ lastChanges' = {}
  /\ lastCluster' = cluster
  /\ UNCHANGED <<inputs, openInfoWindow, infoWindow, hostMarker,
                 _observableSubscriptions, lifecycle, nChanges, mgrInitCalls,
                 mgrClearCalls>>

ClusterClick == \E cluster \in Clusters : ClusterEvent("clusterclick", cluster)

ClusterDblClick == \E cluster \in Clusters : ClusterEvent("dblclick", cluster)

Next ==
  \/ \E changes \in ChangeSets : ngOnChanges(changes)
  \/ ngOnInit
  \/ ngOnDestroy
  \/ \E S \in SUBSET InfoWindows : InfoWindowChanges(S)
  \/ ClusterClick
  \/ ClusterDblClick

Spec == Init /\ [][Next]_vars

\* ---------------------------------------------------------------- claims

\* The manager setter that corresponds to a cluster option.
SetterOf(o) ==
  CASE o = "gridSize"           -> "setGridSize"
    [] o = "maxZoom"            -> "setMaxZoom"
    [] o = "zoomOnClick"        -> "setZoomOnClick"
    [] o = "averageCenter"      -> "setAverageCenter"
    [] o = "minimumClusterSize" -> "setMinimumClusterSize"
    [] o = "styles"             -> "setStyles"
    [] o = "imagePath"          -> "setImagePath"
    [] o = "imageExtension"     -> "setImageExtension"

\* C1: after any sequence of lifecycle callbacks the directive holds at most
\* one live subscription to the clusterclick stream and at most one to the
\* dblclick stream.
C1_AtMostOneSubscriptionPerStream ==
  \A s \in Streams : LiveSubscriptions(s) <= 1

\* C2: a cluster click the manager delivers after ngOnDestroy causes no
\* clusterClick emission and opens no info window.
C2_NoEmissionAfterDestroy ==
  (lifecycle = "destroyed" /\ lastOp = "clusterclick")
    => (Count(trace, "emit") = 0 /\ Count(trace, "open") = 0)

\* C3: in every ngOnChanges call, the setter of each cluster option is called
\* exactly once when the option is in the change set and not at all when it
\* is not.
C3_OneSetterCallPerChangedOption ==
  lastOp = "ngOnChanges"
    => \A o \in ClusterOptionNames :
         Count(trace, SetterOf(o)) = (IF o \in lastChanges THEN 1 ELSE 0)

\* C4: a cluster click delivered while the directive is initialized and not
\* destroyed produces exactly one clusterClick emission, however many
\* ngOnChanges calls came before it.
C4_OneEmissionPerClick ==
  (lifecycle = "initialized" /\ lastOp = "clusterclick")
    => Count(trace, "emit") = 1

\* C5: whenever the info-window guard has run (in the constructor and on a
\* change of the content list), it has raised no error if the list has 0 or
\* 1 elements and has raised an error if the list has 2 or more.
C5_GuardRaisesIffMoreThanOne ==
  lastOp \in {"constructor", "infoWindowChanges"}
    => /\ Len(infoWindow) <= 1 => Count(trace, "raise") = 0
       /\ Len(infoWindow) >= 2 => Count(trace, "raise") = 1

\* C5 happens: a content change to two info windows has raised.
C5_Witness ==
  /\ lastOp = "infoWindowChanges"
  /\ Len(infoWindow) = 2
  /\ Count(trace, "raise") = 1

\* C6: once ngOnInit has run, the manager has received init and the
\* directive holds a listener on the clusterclick stream and one on the
\* dblclick stream, also when ngOnChanges was never called.
C6_InitializedHasListeners ==
  lifecycle = "initialized"
    => /\ mgrInitCalls >= 1
       /\ \A s \in Streams : LiveSubscriptions(s) >= 1

\* C7: in every run of the cluster click handler, with openInfoWindow set
\* every projected info window is opened before that run emits and none is
\* opened after; with openInfoWindow unset the click opens no info window
\* and every run of the handler still emits.
C7_OpenBeforeEmit ==
  lastOp = "clusterclick"
    => /\ \A i \in 1..Len(trace) :
            (trace[i].kind = "emit" /\ openInfoWindow)
              => \A k \in 1..Len(infoWindow) :
                   \E j \in 1..(i - 1) :
                     /\ trace[j].kind = "open"
                     /\ trace[j].sub = trace[i].sub
                     /\ trace[j].arg = infoWindow[k]
       /\ \A i, j \in 1..Len(trace) :
            (/\ trace[i].kind = "emit"
             /\ trace[j].kind = "open"
             /\ trace[j].sub = trace[i].sub) => j < i
       /\ ~openInfoWindow => Count(trace, "open") = 0
       /\ \A n \in 1..Len(_observableSubscriptions) :
            _observableSubscriptions[n] = "clusterclick"
              => \E i \in 1..Len(trace) :
                   trace[i].kind = "emit" /\ trace[i].sub = n

\* C7 happens: a click with openInfoWindow set and an info window projected
\* has opened it and emitted.
C7_Witness ==
  /\ lastOp = "clusterclick"
  /\ openInfoWindow
  /\ Len(infoWindow) = 1
  /\ Count(trace, "open") >= 1
  /\ Count(trace, "emit") >= 1

\* C8: the manager's init is called once in the lifetime, by ngOnInit and by
\* no other operation, with an options object of the eight option fields,
\* each equal to the directive's input of that name at that moment.
C8_InitOnceWithInputs ==
  /\ mgrInitCalls = (IF lifecycle = "uninitialized" THEN 0 ELSE 1)
  /\ Count(trace, "init") = (IF lastOp = "ngOnInit" THEN 1 ELSE 0)
  /\ lastOp = "ngOnInit"
       => LET options == OfKind(trace, "init")[1].arg IN
          /\ DOMAIN options = ClusterOptionNames
          /\ \A o \in ClusterOptionNames : options[o] = inputs[o]

\* C8 happens: ngOnInit has run after a property change that left gridSize
\* and maxZoom with different values.
C8_Witness ==
  /\ lastOp = "ngOnInit"
  /\ mgrInitCalls = 1
  /\ nChanges >= 1
  /\ inputs["gridSize"] # inputs["maxZoom"]

\* C9: the manager's clearMarkers is called exactly once by ngOnDestroy and
\* by no other operation.
C9_ClearOnlyOnDestroy ==
  /\ mgrClearCalls = (IF lifecycle = "destroyed" THEN 1 ELSE 0)
  /\ Count(trace, "clearMarkers") = (IF lastOp = "ngOnDestroy" THEN 1 ELSE 0)

\* C9 happens: the directive was destroyed after property changes.
C9_Witness ==
  /\ lastOp = "ngOnDestroy"
  /\ mgrClearCalls = 1
  /\ nChanges >= 1

\* C10: every event a cluster click emits transcribes the cluster: north and
\* east are the north-east corner's lat and lng, south and west the
\* south-west corner's, center the cluster centre's, and markers has the
\* length and order of the cluster's markers, each element holding the title
\* of its marker and nothing else.
C10_EventTranscribesCluster ==
  lastOp = "clusterclick"
    => \A i \in 1..Len(trace) :
         trace[i].kind = "emit"
           => LET e == trace[i].arg
                  c == lastCluster IN
              /\ DOMAIN e = {"bounds", "center", "markers"}
              /\ DOMAIN e.bounds = {"north", "east", "south", "west"}
              /\ e.bounds.north = c.ne.lat
              /\ e.bounds.east = c.ne.lng
              /\ e.bounds.south = c.sw.lat
              /\ e.bounds.west = c.sw.lng
              /\ DOMAIN e.center = {"lat", "lng"}
              /\ e.center.lat = c.center.lat
              /\ e.center.lng = c.center.lng
              /\ Len(e.markers) = Len(c.markers)
              /\ \A k \in 1..Len(c.markers) :
                   /\ DOMAIN e.markers[k] = {"title"}
                   /\ e.markers[k].title = c.markers[k].title

\* C10 happens: a click on a cluster of several markers has emitted.
C10_Witness ==
  /\ lastOp = "clusterclick"
  /\ Count(trace, "emit") >= 1
  /\ Len(lastCluster.markers) >= 2

\* C11: a cluster double click the manager delivers causes no clusterClick
\* emission and opens no info window, in any state of the directive.
C11_DblClickEmitsNothing ==
  lastOp = "dblclick"
    => \A i \in 1..Len(trace) : trace[i].kind \notin {"emit", "open"}

\* C11 happens: a double click reached a handler while openInfoWindow was
\* set and an info window was projected.
C11_Witness ==
  /\ lastOp = "dblclick"
  /\ Count(trace, "log") >= 1
  /\ openInfoWindow
  /\ Len(infoWindow) = 1

\* C12: in every reachable state at most one info window has the directive
\* as its hostMarker.
C12_AtMostOneAttached ==
  Cardinality({w \in InfoWindows : hostMarker[w]}) <= 1

\* The manager's setters.
Setters == {SetterOf(o) : o \in ClusterOptionNames}

\* C13: the manager's init precedes every setter call and every
\* createClusterEventObservable call: an operation that makes such a call
\* runs only when the manager has received init.
C13_InitBeforeSettersAndListeners ==
  (\E i \in 1..Len(trace) :
     trace[i].kind \in Setters \cup {"createClusterEventObservable"})
    => mgrInitCalls >= 1

\* C14: a content-list change on which the info-window guard raises leaves
\* the hostMarker of every info window as it was before.
C14_RaiseAssignsNothing ==
  [][(lastOp' = "infoWindowChanges" /\ Count(trace', "raise") > 0)
       => hostMarker' = hostMarker]_vars

\* C14 happens: the guard has raised on a list holding an info window that
\* is not attached to the directive.
C14_Witness ==
  /\ lastOp = "infoWindowChanges"
  /\ Count(trace, "raise") = 1
  /\ \E i \in 1..Len(infoWindow) : ~hostMarker[infoWindow[i]]

\* C15: a cluster click that reaches a handler while an info window is
\* projected opens the info window if and only if openInfoWindow is true
\* when the click is handled, whatever its value was before.
C15_OpenIffOpenInfoWindowAtClick ==
  (/\ lastOp = "clusterclick"
   /\ LiveSubscriptions("clusterclick") >= 1
   /\ Len(infoWindow) >= 1)
    => ((\E i \in 1..Len(trace) : trace[i].kind = "open") <=> openInfoWindow)

\* C15 happens: after two property changes left openInfoWindow unset, a
\* click on a directive with a projected info window opened nothing.
C15_Witness ==
  /\ lastOp = "clusterclick"
  /\ nChanges = 2
  /\ LiveSubscriptions("clusterclick") >= 2
  /\ Len(infoWindow) = 1
  /\ ~openInfoWindow
  /\ Count(trace, "open") = 0
  /\ Count(trace, "emit") >= 1

\* C16: an ngOnChanges call whose change set holds none of the eight cluster
\* options calls no setter, no init and no clearMarkers on the manager.
C16_NoOptionChangedNoManagerConfigCall ==
  (lastOp = "ngOnChanges" /\ lastChanges \cap ClusterOptionNames = {})
    => \A i \in 1..Len(trace) :
         trace[i].kind \notin Setters \cup {"init", "clearMarkers"}

\* C16 happens: ngOnChanges has run with only openInfoWindow changed.
C16_Witness ==
  /\ lastOp = "ngOnChanges"
  /\ lastChanges = {"openInfoWindow"}
  /\ Len(trace) >= 1

\* C17: a cluster click handled while openInfoWindow is true and no info
\* window is projected opens nothing, raises nothing, and every run of the
\* click handler emits the event with the cluster's bounds, centre and
\* marker titles.
C17_ClickWithoutInfoWindowStillEmits ==
  (lastOp = "clusterclick" /\ openInfoWindow /\ Len(infoWindow) = 0)
    => /\ Count(trace, "open") = 0
       /\ Count(trace, "raise") = 0
       /\ Count(trace, "emit") = LiveSubscriptions("clusterclick")
       /\ \A e \in {OfKind(trace, "emit")[i].arg :
                      i \in 1..Count(trace, "emit")} :
            /\ e.bounds = [north |-> lastCluster.ne.lat,
                           east  |-> lastCluster.ne.lng,
                           south |-> lastCluster.sw.lat,
                           west  |-> lastCluster.sw.lng]
            /\ e.center = lastCluster.center
            /\ Len(e.markers) = Len(lastCluster.markers)
            /\ \A k \in 1..Len(e.markers) :
                 e.markers[k].title = lastCluster.markers[k].title

\* C17 happens: a click with openInfoWindow set and no info window projected
\* has emitted.
C17_Witness ==
  /\ lastOp = "clusterclick"
  /\ openInfoWindow
  /\ Len(infoWindow) = 0
  /\ Count(trace, "emit") >= 1
  /\ Len(lastCluster.markers) >= 2

====
